---- MODULE Spec2Model ----
(***************************************************************************)
(* SpectraTray (src/app.py): the spectral level engine of the tray meter.  *)
(*                                                                         *)
(* Two threads share the TraySpectrumMeter object: the worker thread       *)
(* (TraySpectrumMeter._worker) and the menu thread that runs the pystray   *)
(* callbacks built by _build_menu.  Every `with self._lock:` block and     *)
(* every threading.Event operation (is_set, set, clear) is one atomic      *)
(* step; code that touches only the worker's locals is folded into the     *)
(* step of the shared access that precedes it.                             *)
(*                                                                         *)
(* Levels in dB are fixed-point integers in units of 0.01 dB (cdB):        *)
(* -30.0 dB is -3000, the decay of 0.06 dB per frame is 6.  The denoise    *)
(* strength is in tenths (1.2 is 12).  A frame is represented by what the  *)
(* worker derives from it: for each band the three statistics of           *)
(* mag_db[a:b] (max, p90, rms), in cdB.                                    *)
(***************************************************************************)
EXTENDS Integers, Sequences, FiniteSets, TLC

\* ------------------------------------------------------------------ bounds
\* Number of bands of the model (the program runs with n_bands = 8).
n_bands == 2
\* Calibration window of the model, in frames (the program computes
\* max(12, int(3 * sr / nfft)) = 35).
learn_frames == 2
\* rec.record calls the worker may start while the stop signal is clear.
MaxReads == 3
\* Menu callbacks that change a setting or request a calibration.
MaxOps == 2
\* rec.record calls of the sequential long run (SpecSeq).
MaxSeqFrames == 320
\* rec.record calls of the long run on a silent stream (SpecSilence).
MaxSilentFrames == 1000
\* rec.record calls of the long run on a steady tone (SpecSteady).
MaxSteadyFrames == 760
\* Band values of the normalisation run (SpecNorm): -10 dB down to
\* -10 - 3 * NormSteps dB in steps of 3 dB.
NormSteps == 25
\* Frames the worker reads from the stream while the lock is followed step
\* by step.
LockReads == 2
\* Largest number of bands of the band plans built in SpecPlan.
MaxPlanBands == 3

\* ------------------------------------------------------- program constants
max_level == 10
peak_decay_db == 6
denoise_gate_margin_db == 0
PeakInit == -3000
Silence == -12000
samplerate == 48000
nfft == 4096

\* Python's None: "None" where a string is expected, an empty sequence where
\* a list or an array is, and 0 where a number is (no dB range, level count
\* or band value of the program is 0 when it is used).
None == "None"
NoList == <<>>

DbRangeChoices == {4500, 6000, 7500}
BgModes == {"transparent", "white", "black"}
BandStatChoices == {"max", "rms", "p90"}
DenoiseStrengthChoices == {8, 12, 18}

Bands == 1..n_bands

\* ------------------------------------------------------------ pure helpers

\* A plausible slip: no clamping at all.
clamp_none(x, a, b) == x

clamp(x, a, b) == IF x < a THEN a ELSE (IF x > b THEN b ELSE x)

\* Python's max of two numbers.
PyMax(a, b) == IF a >= b THEN a ELSE b

\* learn_frames = max(12, int(3 * sr / nfft)): int() truncates the quotient.
LearnFrames(sr, n) == PyMax(12, (3 * sr) \div n)

\* Python's round() on the rational n/d (d > 0): to nearest, ties to even.
RoundHalfEven(n, d) ==
    LET q == n \div d
        r == n % d
    IN  IF 2 * r < d THEN q
        ELSE IF 2 * r > d THEN q + 1
        ELSE IF q % 2 = 0 THEN q ELSE q + 1

\* A plausible slip: a peak hold without decay.
PeakHold(peak, b) == IF b > peak THEN b ELSE peak

\* band_peak_db[i] = max(band_db, band_peak_db[i] - self.peak_decay_db)
PeakUpdate(peak, b) ==
    IF b > peak - peak_decay_db THEN b ELSE peak - peak_decay_db

\* A plausible slip: the floor is taken at the peak itself.
LevelFromPeak(b, peak, r, ml) ==
    clamp(RoundHalfEven(clamp(b - peak, 0, r) * ml, r), 0, ml)

\* floor = peak - db_range; t = clamp((b - floor) / db_range, 0, 1);
\* lv = int(round(t * max_level)); clamp(lv, 0, max_level).
\* clamp(x / r, 0, 1) with r > 0 is clamp(x, 0, r) / r.
LevelOf(b, peak, r, ml) ==
    LET floor == peak - r
        tnum  == clamp(b - floor, 0, r)
        lv    == RoundHalfEven(tnum * ml, r)
    IN  clamp(lv, 0, ml)

\* 10*log10(1 + alpha) in cdB, rounded up: band_db < nb + margin after the
\* power subtraction exactly when b - n < 10*log10(1 + alpha) + margin.
GateThreshold(alpha) ==
    CASE alpha = 0  -> 0
      [] alpha = 8  -> 256
      [] alpha = 12 -> 343
      [] alpha = 18 -> 448

\* -10*log10(1 - alpha * 10^(-d/10)) in cdB to the nearest unit, for a
\* distance d = b - n above the noise estimate that is a multiple of 5 dB
\* (all the distances the frames of the model produce with these strengths);
\* 0 from 35 dB on, and 0 at any distance for the strength 0.
SubtractionLoss(d, alpha) ==
    LET row == CASE alpha = 0  -> <<0, 0, 0, 0, 0, 0>>
                 [] alpha = 8  -> <<127, 36, 11, 3, 1, 0>>
                 [] alpha = 12 -> <<207, 56, 17, 5, 2, 1>>
                 [] alpha = 18 -> <<366, 86, 25, 8, 2, 1>>
    IN  IF alpha = 0 \/ d > 3000 THEN 0 ELSE row[d \div 500]

\* A plausible slip: the noise gate is left out.
DenoiseUngated(b, n, alpha) == PyMax(b - SubtractionLoss(b - n, alpha), Silence)

\* P = 10^(b/10); N = 10^(n/10); Pclean = max(P - alpha*N, 1e-12);
\* band_db = 10*log10(Pclean), which the 1e-12 keeps at -120 dB or above;
\* gated to -120 dB when below n + margin.
Denoise(b, n, alpha) ==
    IF b - n < GateThreshold(alpha) + denoise_gate_margin_db
    THEN Silence
    ELSE PyMax(b - SubtractionLoss(b - n, alpha), Silence)

\* The if/elif chain over stat_mode reaches one of its three branches; the
\* final else raises ValueError.
StatKnown(stat_mode) == stat_mode \in {"max", "p90", "rms"}

\* The statistic of the band's segment selected by a known stat_mode.
SegStat(seg, stat_mode) ==
    CASE stat_mode = "max" -> seg.max
      [] stat_mode = "p90" -> seg.p90
      [] stat_mode = "rms" -> seg.rms

IsEmptyBand(bin) == bin[2] <= bin[1]

\* b to the power e, for a natural number e.
RECURSIVE Pow(_, _)
Pow(b, e) == IF e = 0 THEN 1 ELSE b * Pow(b, e - 1)

\* edges = np.logspace(log10(fmin), log10(fmax), n_bands + 1):
\* edges[j] = fmin * (fmax / fmin)^(j / n_bands), so that
\* edges[j]^n_bands = fmin^(n_bands - j) * fmax^j.  The frequency of bin q is
\* q * sr / nfft (np.fft.rfftfreq).  Both sides of a comparison of the two
\* are raised to the power n_bands and multiplied by nfft^n_bands.
BinPower(a, q) == Pow(q * a.sr, a.n_bands)
EdgePower(a, j) ==
    Pow(a.nfft, a.n_bands) * Pow(a.fmin, a.n_bands - j) * Pow(a.fmax, j)

\* idx = np.where((freqs >= lo) & (freqs < hi))[0] for band j (from 0)
BandIdx(a, j) ==
    {q \in 0..(a.nfft \div 2) :
        /\ BinPower(a, q) >= EdgePower(a, j)
        /\ BinPower(a, q) < EdgePower(a, j + 1)}

\* build_band_bins(sr, nfft, n_bands, fmin, fmax): (0, 0) for a band without
\* bins, (idx[0], idx[-1] + 1) otherwise.
build_band_bins(a) ==
    [j \in 1..a.n_bands |->
        LET idx == BandIdx(a, j - 1)
        IN  IF idx = {} THEN <<0, 0>>
            ELSE <<CHOOSE q \in idx : \A l \in idx : q <= l,
                   (CHOOSE q \in idx : \A l \in idx : q >= l) + 1>>]

\* No bin frequency coincides with a band edge: the result does not hinge on
\* the rounding of np.logspace.
NoBinOnEdge(a) ==
    \A q \in 0..(a.nfft \div 2), j \in 0..a.n_bands :
        BinPower(a, q) # EdgePower(a, j)

\* Valid band-plan arguments of small size: a power of two for nfft, and
\* 0 < fmin < fmax <= sr / 2.
PlanArgs ==
    {a \in [sr : {8, 16}, nfft : {4, 8, 16}, n_bands : 1..MaxPlanBands,
            fmin : 1..8, fmax : 1..8] :
        /\ a.fmin < a.fmax
        /\ 2 * a.fmax <= a.sr
        /\ NoBinOnEdge(a)}

\* One row of buf: the p90 of every band, -120 dB for an empty band.
BandDbList(frame, bs) ==
    [i \in Bands |-> IF IsEmptyBand(bs[i]) THEN Silence ELSE frame[i].p90]

\* The sequence s of integers in ascending order.
RECURSIVE Ascending(_)
Ascending(s) ==
    IF s = <<>> THEN <<>>
    ELSE LET m == CHOOSE j \in 1..Len(s) : \A l \in 1..Len(s) : s[j] <= s[l]
         IN  <<s[m]>> \o Ascending([l \in 1..(Len(s) - 1) |->
                                     IF l < m THEN s[l] ELSE s[l + 1]])

\* np.median of a non-empty column: the middle value, or the mean of the two
\* middle values (exact here: the p90 values of the model are even).
Median(col) ==
    LET s == Ascending(col)
        n == Len(s)
    IN  IF n % 2 = 1 THEN s[(n + 1) \div 2]
        ELSE (s[n \div 2] + s[n \div 2 + 1]) \div 2

\* np.median(np.array(buf), axis=0)
MedianProfile(rows) ==
    [i \in Bands |-> Median([j \in 1..Len(rows) |-> rows[j][i]])]

\* ------------------------------------------------------------------ frames

\* What rec.record returned when it is no full frame: None or an array of
\* size 0.
Empty == <<>>

Loud  == [max |-> -1000, rms |-> -1500, p90 |-> -2000]
Quiet == [max |-> -7000, rms |-> -7500, p90 |-> -8000]

\* A tone in band 1 over a quiet background, and the quiet background alone.
FrameTone == [i \in Bands |-> IF i = 1 THEN Loud ELSE Quiet]
FrameHiss == [i \in Bands |-> Quiet]
Frames == {FrameTone, FrameHiss}

\* An all-zero frame: mag is 0 in every bin, mag_db = 20*log10(1e-8) = -160 dB,
\* which is the max and the p90 of every band; the rms statistic is
\* 20*log10(1e-8 + 1e-12) = -159.9991 dB, -160.00 dB to the nearest cdB.
ZeroBand == [max |-> -16000, rms |-> -16000, p90 |-> -16000]
FrameZero == [i \in Bands |-> ZeroBand]

\* A frame whose band i has the value v[i], whatever the statistic.
FlatFrame(v) == [i \in Bands |-> [max |-> v[i], rms |-> v[i], p90 |-> v[i]]]
NormInputs == {-1000 - 300 * n : n \in 0..NormSteps}
NormFrames == {FlatFrame(v) : v \in [Bands -> NormInputs]}

\* build_band_bins for the program's parameters: no band is empty.
FullPlan == [i \in Bands |-> <<i, i + 1>>]
\* A plan whose lowest band holds no bin: build_band_bins appends (0, 0).
SparsePlan == [i \in Bands |-> IF i = 1 THEN <<0, 0>> ELSE <<i, i + 1>>]

\* ------------------------------------------------------------------- state
VARIABLES
    \* shared attributes of the TraySpectrumMeter object
    cfg,            \* db_range, bg_mode, band_stat, denoise_enabled, denoise_alpha
    stop,           \* self._stop
    force_redraw,   \* self._force_redraw
    learn_noise,    \* self._learn_noise
    lock,           \* self._lock: who entered a `with self._lock:` block, and
                    \* where
    noise_band_db,  \* self._noise_band_db
    \* the worker thread: its position, the arguments it builds the band plan
    \* from, and its locals
    pc, args, bins, band_peak_db, data, buf, k, loc, i, band_db, levels, last,
    \* the menu thread: its position, and the callbacks it has run
    mpc, nOps,
    \* observation of the run
    nReads,         \* rec.record calls of the main loop
    readsAfterStop, \* rec.record calls started with the stop signal set
    outcome,        \* what the current iteration did: published a profile,
                    \* then delivered or suppressed its frame
    forced,         \* the current iteration took the force-redraw branch
    delivered,      \* the values of the frame last handed to the renderer
    used,           \* per band of the frame: the denoise settings it read
    hist,           \* the configurations that existed during the iteration
    learnSets,      \* learn requests since the flag was last cleared
    consumed        \* learn requests the running calibration consumed

vars == <<cfg, stop, force_redraw, learn_noise, lock, noise_band_db,
          pc, args, bins, band_peak_db, data, buf, k, loc, i, band_db, levels,
          last, mpc, nOps,
          nReads, readsAfterStop, outcome, forced, delivered, used, hist,
          learnSets, consumed>>

\* self._lock = threading.Lock(), not acquired.  An acquired lock records
\* the thread that entered the block and the position it entered it at; the
\* block's body is one step, at whose end the lock is released.
Free == <<"free", "", 0>>

\* last_levels = last_db_range = last_bg_mode = last_stat_mode = None
NoLast == [levels |-> NoList, db_range |-> 0, bg_mode |-> None,
           stat_mode |-> None]
\* the worker's db_range, bg_mode, max_level, stat_mode before it reads them
NoLoc == [db_range |-> 0, bg_mode |-> None, max_level |-> 0,
          stat_mode |-> None]

\* TraySpectrumMeter.__init__
InitCfg == [db_range |-> 6000, bg_mode |-> "black", band_stat |-> "rms",
            denoise_enabled |-> FALSE, denoise_alpha |-> 12]

\* sr = self.samplerate; nfft = self.nfft;
\* build_band_bins(sr, nfft, n_bands=self.n_bands): fmin and fmax default.
ProgramArgs == [sr |-> samplerate, nfft |-> nfft, n_bands |-> n_bands,
                fmin |-> 80, fmax |-> 16000]

\* The worker at position at, its band plan built from the arguments a (or
\* yet to be built), with every band's peak at p0 and the noise profile nb.
InitState(at, a, c, plan, redraw, ops, p0, nb) ==
    /\ cfg = c
    /\ args = a
    /\ stop = FALSE
    /\ force_redraw = redraw
    /\ learn_noise = FALSE
    /\ lock = Free
    /\ noise_band_db = nb
    /\ pc = at
    /\ bins = plan
    /\ band_peak_db = [b \in Bands |-> p0]
    /\ data = NoList
    /\ buf = <<>>
    /\ k = 0
    /\ loc = NoLoc
    /\ i = 0
    /\ band_db = 0
    /\ levels = <<>>
    /\ last = NoLast
    /\ mpc = "idle"
    /\ nOps = ops
    /\ nReads = 0
    /\ readsAfterStop = 0
    /\ outcome = "none"
    /\ forced = FALSE
    /\ delivered = NoLast
    /\ used = <<>>
    /\ hist = {InitCfg, c}
    /\ learnSets = 0
    /\ consumed = 0

\* band_peak_db = np.full(self.n_bands, -30.0)
\* The state after construction, and after earlier iterations have left
\* every band's peak at p0 and the noise profile at nb.
InitAt(c, plan, redraw, ops, p0, nb) ==
    InitState("loop", ProgramArgs, c, plan, redraw, ops, p0, nb)

\* self._noise_band_db = None
InitWith(c, plan, redraw, ops) ==
    InitAt(c, plan, redraw, ops, PeakInit, NoList)

Init == InitWith(InitCfg, FullPlan, FALSE, 0)

\* ------------------------------------------------- decisions of the worker

\* A plausible slip: the calibration branch is taken on every frame.
LearnAlways(flag) == TRUE

\* if self._learn_noise.is_set():
LearnRequested(flag) == flag

\* A plausible slip: the calibration loop does not look at the stop signal.
CalIgnoresStop(kk, st) == kk < learn_frames

\* for _ in range(learn_frames): if self._stop.is_set(): break
CalContinues(kk, st) == kk < learn_frames /\ ~st

\* A plausible slip: the frame of the calibration read replaces the frame the
\* iteration goes on with.
CalTakesFrame(frame, d) == d

\* data2, x2, mag2 are locals of their own: data, x, mag keep the frame read
\* before the calibration.
CalKeepsFrame(frame, d) == frame

\* A plausible slip: the profile is published whatever was captured.
PublishAlways(rows) == TRUE

\* if buf:
ShouldPublish(rows) == rows # <<>>

\* A plausible slip: the calibration publishes without asking for a redraw.
PublishKeepsFlag(flag) == flag

\* self._force_redraw.set() after the profile was published
PublishRedraw(flag) == TRUE

\* A plausible slip: the force-redraw branch leaves last_* as they are.
ForceKeepsLast(lst) == lst

\* last_levels = None; last_db_range = None; last_bg_mode = None;
\* last_stat_mode = None
ForceReset(lst) == NoLast

\* A plausible slip: the statistic mode is left out of the comparison.
DiffersButStat(cur, lst) ==
    \/ cur.levels # lst.levels
    \/ cur.db_range # lst.db_range
    \/ cur.bg_mode # lst.bg_mode

\* (levels != last_levels) or (db_range != last_db_range) or
\* (bg_mode != last_bg_mode) or (stat_mode != last_stat_mode)
Differs(cur, lst) ==
    \/ cur.levels # lst.levels
    \/ cur.db_range # lst.db_range
    \/ cur.bg_mode # lst.bg_mode
    \/ cur.stat_mode # lst.stat_mode

\* The values the change detector compares, for the frame just computed.
Current == [levels |-> levels, db_range |-> loc.db_range,
            bg_mode |-> loc.bg_mode, stat_mode |-> loc.stat_mode]

\* ------------------------------------------------------- the worker thread

\* bins = build_band_bins(sr, nfft, n_bands=self.n_bands), at the start of
\* _worker.
WBuildBins ==
    /\ pc = "start"
    /\ bins' = build_band_bins(args)
    /\ pc' = "built"
    /\ UNCHANGED <<cfg, stop, force_redraw, learn_noise, noise_band_db, args, lock,
                   band_peak_db, data, buf, k, loc, i, band_db, levels, last,
                   mpc, nOps, nReads, readsAfterStop, outcome, forced,
                   delivered, used, hist, learnSets, consumed>>

\* while not self._stop.is_set():
WLoop ==

    /\ pc = "loop"
    /\ IF stop
       THEN pc' = "done" /\ UNCHANGED <<outcome, forced, hist>>
       ELSE /\ pc' = "read"
            /\ outcome' = "none"
            /\ forced' = FALSE
            /\ hist' = {cfg}
    /\ UNCHANGED <<cfg, stop, force_redraw, learn_noise, noise_band_db, bins, args, lock,
                   band_peak_db, data, buf, k, loc, i, band_db, levels, last,
                   mpc, nOps, nReads, readsAfterStop, delivered, used,
                   learnSets, consumed>>

\* data = rec.record(numframes=nfft); if data is None or data.size == 0:
\* continue.  x, X and mag are folded into data.
ReadFrom(outs, budget) ==
    /\ pc = "read"
    /\ nReads < budget \/ stop
    /\ \E d \in outs :
          /\ nReads' = nReads + 1
          /\ readsAfterStop' = IF stop THEN readsAfterStop + 1
                                       ELSE readsAfterStop
          /\ IF d = Empty
             THEN pc' = "loop" /\ data' = NoList
             ELSE pc' = "learn_check" /\ data' = d

\* The stream of the program: full frames, and empty reads.
WRead ==

    /\ ReadFrom(Frames \cup {Empty}, MaxReads)
    /\ UNCHANGED <<cfg, stop, force_redraw, learn_noise, noise_band_db, bins, args, lock,
                   band_peak_db, buf, k, loc, i, band_db, levels, last, mpc,
                   nOps, outcome, forced, delivered, used, hist, learnSets,
                   consumed>>

\* x * window with a frame of fewer than nfft samples: numpy cannot
\* broadcast the two shapes and raises ValueError, which ends the thread.
WReadShort ==

    /\ pc = "read"
    /\ nReads < MaxReads \/ stop
    /\ nReads' = nReads + 1
    /\ readsAfterStop' = IF stop THEN readsAfterStop + 1 ELSE readsAfterStop
    /\ pc' = "raised_short"
    /\ UNCHANGED <<cfg, stop, force_redraw, learn_noise, noise_band_db, bins, args, lock,
                   band_peak_db, data, buf, k, loc, i, band_db, levels, last,
                   mpc, nOps, outcome, forced, delivered, used, hist,
                   learnSets, consumed>>

\* if self._learn_noise.is_set():
WLearnCheck ==

    /\ pc = "learn_check"
    /\ pc' = IF LearnRequested(learn_noise) THEN "learn_clear"
                                            ELSE "get_db_range"
    /\ UNCHANGED <<cfg, stop, force_redraw, learn_noise, noise_band_db, bins, args, lock,
                   band_peak_db, data, buf, k, loc, i, band_db, levels, last,
                   mpc, nOps, nReads, readsAfterStop, outcome, forced,
                   delivered, used, hist, learnSets, consumed>>

\* self._learn_noise.clear(); learn_frames = ...; buf = []
WLearnClear ==

    /\ pc = "learn_clear"
    /\ learn_noise' = FALSE
    /\ buf' = <<>>
    /\ k' = 0
    /\ consumed' = learnSets
    /\ learnSets' = 0
    /\ pc' = "cal_loop"
    /\ UNCHANGED <<cfg, stop, force_redraw, noise_band_db, bins, args, lock,
                   band_peak_db, data, loc, i, band_db, levels, last, mpc,
                   nOps, nReads, readsAfterStop, outcome, forced, delivered,
                   used, hist>>

\* for _ in range(learn_frames): if self._stop.is_set(): break
\* and, when the loop is left, if buf:
WCalLoop ==

    /\ pc = "cal_loop"
    /\ pc' = IF CalContinues(k, stop) THEN "cal_read"
             ELSE IF ShouldPublish(buf) THEN "publish"
             ELSE "get_db_range"
    /\ UNCHANGED <<cfg, stop, force_redraw, learn_noise, noise_band_db, bins, args, lock,
                   band_peak_db, data, buf, k, loc, i, band_db, levels, last,
                   mpc, nOps, nReads, readsAfterStop, outcome, forced,
                   delivered, used, hist, learnSets, consumed>>

\* data2 = rec.record(numframes=nfft); an empty read is skipped (continue);
\* otherwise the band p90 row of the frame is appended to buf.
WCalRead ==

    /\ pc = "cal_read"
    /\ \E d \in Frames \cup {Empty} :
          /\ buf' = IF d = Empty THEN buf
                                 ELSE Append(buf, BandDbList(d, bins))
          /\ data' = CalKeepsFrame(data, d)
    /\ k' = k + 1
    /\ readsAfterStop' = IF stop THEN readsAfterStop + 1 ELSE readsAfterStop
    /\ pc' = "cal_loop"
    /\ UNCHANGED <<cfg, stop, force_redraw, learn_noise, noise_band_db, bins, args, lock,
                   band_peak_db, loc, i, band_db, levels, last, mpc,
                   nOps, nReads, outcome, forced, delivered, used, hist,
                   learnSets, consumed>>

\* x2 * window with a short calibration frame raises ValueError.
WCalReadShort ==

    /\ pc = "cal_read"
    /\ readsAfterStop' = IF stop THEN readsAfterStop + 1 ELSE readsAfterStop
    /\ pc' = "raised_short"
    /\ UNCHANGED <<cfg, stop, force_redraw, learn_noise, noise_band_db, bins, args, lock,
                   band_peak_db, data, buf, k, loc, i, band_db, levels, last,
                   mpc, nOps, nReads, outcome, forced, delivered, used, hist,
                   learnSets, consumed>>

\* noise_band = np.median(...); with self._lock: self._noise_band_db = ...
WPublish ==

    /\ pc = "publish"
    /\ noise_band_db' = MedianProfile(buf)
    /\ outcome' = "published"
    /\ pc' = "pub_flag"
    /\ UNCHANGED <<cfg, stop, force_redraw, learn_noise, bins, args, lock, band_peak_db,
                   data, buf, k, loc, i, band_db, levels, last, mpc, nOps,
                   nReads, readsAfterStop, forced, delivered, used,
                   hist, learnSets, consumed>>

\* self._force_redraw.set()
WPubFlag ==

    /\ pc = "pub_flag"
    /\ force_redraw' = PublishRedraw(force_redraw)
    /\ pc' = "get_db_range"
    /\ UNCHANGED <<cfg, stop, learn_noise, noise_band_db, bins, args, lock, band_peak_db,
                   data, buf, k, loc, i, band_db, levels, last, mpc, nOps,
                   nReads, readsAfterStop, outcome, forced, delivered, used,
                   hist, learnSets, consumed>>

\* mag_db = ...; db_range = self.get_db_range().  The locals of a finished
\* calibration are dead from here on.
WGetDbRange ==

    /\ pc = "get_db_range"
    /\ loc' = [loc EXCEPT !.db_range = cfg.db_range]
    /\ buf' = <<>>
    /\ k' = 0
    /\ consumed' = 0
    /\ pc' = "get_bg_mode"
    /\ UNCHANGED <<cfg, stop, force_redraw, learn_noise, noise_band_db, bins, args, lock,
                   band_peak_db, data, i, band_db, levels, last, mpc, nOps,
                   nReads, readsAfterStop, outcome, forced, delivered, used,
                   hist, learnSets>>

\* bg_mode = self.get_bg_mode()
WGetBgMode ==

    /\ pc = "get_bg_mode"
    /\ loc' = [loc EXCEPT !.bg_mode = cfg.bg_mode]
    /\ pc' = "get_max_level"
    /\ UNCHANGED <<cfg, stop, force_redraw, learn_noise, noise_band_db, bins, args, lock,
                   band_peak_db, data, buf, k, i, band_db, levels, last, mpc,
                   nOps, nReads, readsAfterStop, outcome, forced, delivered,
                   used, hist, learnSets, consumed>>

\* max_level = self.get_max_level()
WGetMaxLevel ==

    /\ pc = "get_max_level"
    /\ loc' = [loc EXCEPT !.max_level = max_level]
    /\ pc' = "get_band_stat"
    /\ UNCHANGED <<cfg, stop, force_redraw, learn_noise, noise_band_db, bins, args, lock,
                   band_peak_db, data, buf, k, i, band_db, levels, last, mpc,
                   nOps, nReads, readsAfterStop, outcome, forced, delivered,
                   used, hist, learnSets, consumed>>

\* stat_mode = self.get_band_stat(); levels = []
WGetBandStat ==

    /\ pc = "get_band_stat"
    /\ loc' = [loc EXCEPT !.stat_mode = cfg.band_stat]
    /\ levels' = <<>>
    /\ used' = <<>>
    /\ i' = 1
    /\ pc' = "band"
    /\ UNCHANGED <<cfg, stop, force_redraw, learn_noise, noise_band_db, bins, args, lock,
                   band_peak_db, data, buf, k, band_db, last, mpc, nOps,
                   nReads, readsAfterStop, outcome, forced, delivered, hist,
                   learnSets, consumed>>

\* A plausible slip: the denoiser runs whatever the switch says.
DenoiseAlwaysOn(flag) == TRUE

\* if self.get_denoise_enabled():
DenoiseOn(flag) == flag

\* The end of the loop body for band i, with b the band's final band_db and
\* u the record of the frame's bands: the peak tracker is fed b, then the
\* normalisation, levels.append, and the next band.
FinishBand(b, u) ==
    /\ used' = [u EXCEPT ![i].fed = b]
    /\ band_peak_db' = [band_peak_db EXCEPT ![i] = PeakUpdate(@, b)]
    /\ levels' = Append(levels, LevelOf(b, PeakUpdate(band_peak_db[i], b),
                                        loc.db_range, loc.max_level))
    /\ band_db' = 0
    /\ IF i = Len(bins)
       THEN i' = 0 /\ pc' = "force_check"
       ELSE i' = i + 1 /\ pc' = "band"

\* for i, (a, b) in enumerate(bins): the band statistic (ValueError for an
\* unknown stat_mode) and, for a band with bins, self.get_denoise_enabled().
WBand ==

    /\ pc = "band"
    /\ IF IsEmptyBand(bins[i])
       THEN FinishBand(Silence, Append(used, [en |-> "unread", alpha |-> -1,
                                               stat |-> Silence, fed |-> 0]))
       ELSE IF ~StatKnown(loc.stat_mode)
       THEN /\ pc' = "raised_stat"
            /\ UNCHANGED <<band_peak_db, levels, band_db, i, used>>
       ELSE LET s == SegStat(data[i], loc.stat_mode)
                u == Append(used, [en |-> IF cfg.denoise_enabled THEN "on"
                                                                 ELSE "off",
                                   alpha |-> -1, stat |-> s, fed |-> 0])
            IN  IF DenoiseOn(cfg.denoise_enabled)
                THEN /\ band_db' = s
                     /\ pc' = "den_nb"
                     /\ used' = u
                     /\ UNCHANGED <<band_peak_db, levels, i>>
                ELSE FinishBand(s, u)
    /\ UNCHANGED <<cfg, stop, force_redraw, learn_noise, noise_band_db, bins, args, lock,
                   data, buf, k, loc, last, mpc, nOps, nReads,
                   readsAfterStop, outcome, forced, delivered, hist,
                   learnSets, consumed>>

\* with self._lock: nb = self._noise_band_db; if nb is not None:
WDenNb ==

    /\ pc = "den_nb"
    /\ IF noise_band_db # NoList
       THEN /\ pc' = "den_alpha"
            /\ UNCHANGED <<band_peak_db, levels, band_db, i, used>>
       ELSE FinishBand(band_db, used)
    /\ UNCHANGED <<cfg, stop, force_redraw, learn_noise, noise_band_db, bins, args, lock,
                   data, buf, k, loc, last, mpc, nOps, nReads,
                   readsAfterStop, outcome, forced, delivered, hist,
                   learnSets, consumed>>

\* alpha = self.get_denoise_alpha(); the power subtraction and the gate.
\* Only the worker writes _noise_band_db, so nb is still its value.
WDenAlpha ==

    /\ pc = "den_alpha"
    /\ FinishBand(Denoise(band_db, noise_band_db[i], cfg.denoise_alpha),
                  [used EXCEPT ![i].alpha = cfg.denoise_alpha])
    /\ UNCHANGED <<cfg, stop, force_redraw, learn_noise, noise_band_db, bins, args, lock,
                   data, buf, k, loc, last, mpc, nOps, nReads,
                   readsAfterStop, outcome, forced, delivered, hist,
                   learnSets, consumed>>

\* if self._force_redraw.is_set():
WForceCheck ==

    /\ pc = "force_check"
    /\ pc' = IF force_redraw THEN "force_clear" ELSE "compare"
    /\ UNCHANGED <<cfg, stop, force_redraw, learn_noise, noise_band_db, bins, args, lock,
                   band_peak_db, data, buf, k, loc, i, band_db, levels, last,
                   mpc, nOps, nReads, readsAfterStop, outcome, forced,
                   delivered, used, hist, learnSets, consumed>>

\* last_levels = None; ...; self._force_redraw.clear()
WForceClear ==

    /\ pc = "force_clear"
    /\ last' = ForceReset(last)
    /\ force_redraw' = FALSE
    /\ forced' = TRUE
    /\ pc' = "compare"
    /\ UNCHANGED <<cfg, stop, learn_noise, noise_band_db, bins, args, lock, band_peak_db,
                   data, buf, k, loc, i, band_db, levels, mpc, nOps, nReads,
                   readsAfterStop, outcome, delivered, used, hist, learnSets,
                   consumed>>

\* The change detector: on a difference the icon is redrawn and the last_*
\* values are recorded.  The frame's locals are dead afterwards.
WCompare ==

    /\ pc = "compare"
    /\ IF Differs(Current, last)
       THEN /\ last' = Current
            /\ delivered' = Current
            /\ outcome' = "delivered"
       ELSE /\ outcome' = "suppressed"
            /\ UNCHANGED <<last, delivered>>
    /\ data' = NoList
    /\ loc' = NoLoc
    /\ levels' = <<>>
    /\ used' = <<>>
    /\ pc' = "loop"
    /\ UNCHANGED <<cfg, stop, force_redraw, learn_noise, noise_band_db, bins, args, lock,
                   band_peak_db, buf, k, i, band_db, mpc, nOps, nReads,
                   readsAfterStop, forced, hist, learnSets, consumed>>

\* --------------------------------------------------------- the menu thread

\* A setter's locked assignment; the callback then sets the force-redraw flag.
MenuWrite(c) ==
    /\ mpc = "idle"
    /\ nOps < MaxOps
    /\ cfg' = c
    /\ hist' = hist \cup {c}
    /\ nOps' = nOps + 1
    /\ mpc' = "set_flag"

\* action_range(r): self._set_db_range(r), with self._lock: self.db_range = r
MSetDbRange ==

    /\ \E r \in DbRangeChoices : MenuWrite([cfg EXCEPT !.db_range = r])
    /\ UNCHANGED <<stop, force_redraw, learn_noise, noise_band_db, pc, bins, args, lock,
                   band_peak_db, data, buf, k, loc, i, band_db, levels, last,
                   nReads, readsAfterStop, outcome, forced, delivered, used,
                   learnSets, consumed>>

\* action_bg(mode): self._set_bg_mode(mode)
MSetBgMode ==

    /\ \E m \in BgModes : MenuWrite([cfg EXCEPT !.bg_mode = m])
    /\ UNCHANGED <<stop, force_redraw, learn_noise, noise_band_db, pc, bins, args, lock,
                   band_peak_db, data, buf, k, loc, i, band_db, levels, last,
                   nReads, readsAfterStop, outcome, forced, delivered, used,
                   learnSets, consumed>>

\* action_stat(mode): self._set_band_stat(mode), for the modes of the menu
MSetBandStat ==

    /\ \E m \in BandStatChoices : MenuWrite([cfg EXCEPT !.band_stat = m])
    /\ UNCHANGED <<stop, force_redraw, learn_noise, noise_band_db, pc, bins, args, lock,
                   band_peak_db, data, buf, k, loc, i, band_db, levels, last,
                   nReads, readsAfterStop, outcome, forced, delivered, used,
                   learnSets, consumed>>

\* self._set_band_stat(mode) with a mode that is none of max, rms, p90: the
\* setter stores str(mode) as it is.
MSetBandStatAny ==

    /\ MenuWrite([cfg EXCEPT !.band_stat = "median"])
    /\ UNCHANGED <<stop, force_redraw, learn_noise, noise_band_db, pc, bins, args, lock,
                   band_peak_db, data, buf, k, loc, i, band_db, levels, last,
                   nReads, readsAfterStop, outcome, forced, delivered, used,
                   learnSets, consumed>>

\* action_toggle_denoise: self._set_denoise_enabled(not
\* self.get_denoise_enabled()); the menu thread is the only writer, so the
\* value it read is still the current one.
MToggleDenoise ==

    /\ MenuWrite([cfg EXCEPT !.denoise_enabled = ~cfg.denoise_enabled])
    /\ UNCHANGED <<stop, force_redraw, learn_noise, noise_band_db, pc, bins, args, lock,
                   band_peak_db, data, buf, k, loc, i, band_db, levels, last,
                   nReads, readsAfterStop, outcome, forced, delivered, used,
                   learnSets, consumed>>

\* action_alpha(a): self._set_denoise_alpha(a)
MSetDenoiseAlpha ==

    /\ \E a \in DenoiseStrengthChoices :
          MenuWrite([cfg EXCEPT !.denoise_alpha = a])
    /\ UNCHANGED <<stop, force_redraw, learn_noise, noise_band_db, pc, bins, args, lock,
                   band_peak_db, data, buf, k, loc, i, band_db, levels, last,
                   nReads, readsAfterStop, outcome, forced, delivered, used,
                   learnSets, consumed>>

\* self._force_redraw.set(), the last statement of every setter
MForceRedraw ==

    /\ mpc = "set_flag"
    /\ force_redraw' = TRUE
    /\ mpc' = "idle"
    /\ UNCHANGED <<cfg, stop, learn_noise, noise_band_db, pc, bins, args, lock,
                   band_peak_db, data, buf, k, loc, i, band_db, levels, last,
                   nOps, nReads, readsAfterStop, outcome, forced, delivered,
                   used, hist, learnSets, consumed>>

\* action_learn_noise: self._learn_noise.set()
MLearnNoise ==

    /\ mpc = "idle"
    /\ nOps < MaxOps
    /\ learn_noise' = TRUE
    /\ learnSets' = learnSets + 1
    /\ nOps' = nOps + 1
    /\ UNCHANGED <<cfg, stop, force_redraw, noise_band_db, pc, bins, args, lock,
                   band_peak_db, data, buf, k, loc, i, band_db, levels, last,
                   mpc, nReads, readsAfterStop, outcome, forced, delivered,
                   used, hist, consumed>>

\* _on_exit: self._stop.set(); icon.stop() ends the menu loop
MExit ==

    /\ mpc = "idle"
    /\ stop' = TRUE
    /\ mpc' = "done"
    /\ UNCHANGED <<cfg, force_redraw, learn_noise, noise_band_db, pc, bins, args, lock,
                   band_peak_db, data, buf, k, loc, i, band_db, levels, last,
                   nOps, nReads, readsAfterStop, outcome, forced, delivered,
                   used, hist, learnSets, consumed>>

\* ---------------------------------------------------------- specifications

Worker ==
    \/ WLoop \/ WRead \/ WLearnCheck \/ WLearnClear \/ WCalLoop \/ WCalRead
    \/ WPublish \/ WPubFlag
    \/ WGetDbRange \/ WGetBgMode \/ WGetMaxLevel \/ WGetBandStat
    \/ WBand \/ WDenNb \/ WDenAlpha
    \/ WForceCheck \/ WForceClear \/ WCompare

Menu ==
    \/ MSetDbRange \/ MSetBgMode \/ MSetBandStat \/ MToggleDenoise
    \/ MSetDenoiseAlpha \/ MForceRedraw \/ MLearnNoise \/ MExit

Next == Worker \/ Menu

\* The program: the worker and the menu callbacks, in any interleaving.
Spec == Init /\ [][Next]_vars

\* The program with a worker thread that is always scheduled again.
FairSpec == Spec /\ WF_vars(Worker)

\* The worker with a stream that may also return short frames, and a control
\* surface that may call the statistic setter with any string.
NextEnv ==
    \/ Worker \/ WReadShort \/ WCalReadShort
    \/ MSetBandStatAny \/ MToggleDenoise \/ MForceRedraw \/ MLearnNoise
    \/ MExit

SpecEnv == Init /\ [][NextEnv]_vars

\* A long run of the worker alone, on a band plan whose lowest band is empty,
\* started right after the menu selected a sensitivity.
InitSeq ==
    \E r \in DbRangeChoices :
        InitWith([InitCfg EXCEPT !.db_range = r], SparsePlan, TRUE, 1)

WReadSeq ==
    /\ ReadFrom(Frames, MaxSeqFrames)
    /\ UNCHANGED <<cfg, stop, force_redraw, learn_noise, noise_band_db, bins, args, lock,
                   band_peak_db, buf, k, loc, i, band_db, levels, last, mpc,
                   nOps, outcome, forced, delivered, used, hist, learnSets,
                   consumed>>

NextSeq ==
    \/ WLoop \/ WReadSeq \/ WLearnCheck
    \/ WGetDbRange \/ WGetBgMode \/ WGetMaxLevel \/ WGetBandStat
    \/ WBand \/ WForceCheck \/ WForceClear \/ WCompare

SpecSeq == InitSeq /\ [][NextSeq]_vars

\* A long run of the worker alone on a stream that yields all-zero frames,
\* with the program's band plan, started right after the menu selected a
\* sensitivity.
InitSilence ==
    \E r \in DbRangeChoices :
        InitWith([InitCfg EXCEPT !.db_range = r], FullPlan, TRUE, 1)

WReadSilence ==
    /\ ReadFrom({FrameZero}, MaxSilentFrames)
    /\ UNCHANGED <<cfg, stop, force_redraw, learn_noise, noise_band_db, bins, args, lock,
                   band_peak_db, buf, k, loc, i, band_db, levels, last, mpc,
                   nOps, outcome, forced, delivered, used, hist, learnSets,
                   consumed>>

NextSilence ==
    \/ WLoop \/ WReadSilence \/ WLearnCheck
    \/ WGetDbRange \/ WGetBgMode \/ WGetMaxLevel \/ WGetBandStat
    \/ WBand \/ WForceCheck \/ WForceClear \/ WCompare

SpecSilence == InitSilence /\ [][NextSilence]_vars

\* A long run of the worker alone on a stream that yields the same frame
\* again and again: every band is fed the same value on consecutive frames.
WReadSteady ==
    /\ ReadFrom({FrameTone}, MaxSteadyFrames)
    /\ UNCHANGED <<cfg, stop, force_redraw, learn_noise, noise_band_db, bins, args, lock,
                   band_peak_db, buf, k, loc, i, band_db, levels, last, mpc,
                   nOps, outcome, forced, delivered, used, hist, learnSets,
                   consumed>>

NextSteady ==
    \/ WLoop \/ WReadSteady \/ WLearnCheck
    \/ WGetDbRange \/ WGetBgMode \/ WGetMaxLevel \/ WGetBandStat
    \/ WBand \/ WForceCheck \/ WForceClear \/ WCompare

SpecSteady == InitSilence /\ [][NextSteady]_vars

\* One frame of the worker alone, with any sensitivity, any band values, and
\* the peaks where earlier frames left them: just above -10 dB, or at their
\* initial value.
InitNorm ==
    \E r \in DbRangeChoices, p0 \in {PeakInit, -1000 + peak_decay_db} :
        InitAt([InitCfg EXCEPT !.db_range = r], FullPlan, TRUE, 1, p0,
               NoList)

WReadNorm ==
    /\ ReadFrom(NormFrames, 1)
    /\ UNCHANGED <<cfg, stop, force_redraw, learn_noise, noise_band_db, bins, args, lock,
                   band_peak_db, buf, k, loc, i, band_db, levels, last, mpc,
                   nOps, outcome, forced, delivered, used, hist, learnSets,
                   consumed>>

NextNorm ==
    \/ WLoop \/ WReadNorm \/ WLearnCheck
    \/ WGetDbRange \/ WGetBgMode \/ WGetMaxLevel \/ WGetBandStat
    \/ WBand \/ WForceCheck \/ WForceClear \/ WCompare

SpecNorm == InitNorm /\ [][NextNorm]_vars

\* One frame of the worker alone with denoising switched on, the strength
\* set to 0 by self._set_denoise_alpha(0.0), and a profile learned earlier,
\* from a noise floor of -41.5 dB or from digital silence.
InitDenoise ==
    \E n \in {-4150, -16000} :
        InitAt([InitCfg EXCEPT !.denoise_enabled = TRUE, !.denoise_alpha = 0],
               FullPlan, TRUE, 1, PeakInit, [j \in Bands |-> n])

WReadDenoise ==
    /\ ReadFrom(NormFrames \cup {FrameZero}, 1)
    /\ UNCHANGED <<cfg, stop, force_redraw, learn_noise, noise_band_db, bins, args, lock,
                   band_peak_db, buf, k, loc, i, band_db, levels, last, mpc,
                   nOps, outcome, forced, delivered, used, hist, learnSets,
                   consumed>>

NextDenoise ==
    \/ WLoop \/ WReadDenoise \/ WLearnCheck
    \/ WGetDbRange \/ WGetBgMode \/ WGetMaxLevel \/ WGetBandStat
    \/ WBand \/ WDenNb \/ WDenAlpha \/ WForceCheck \/ WForceClear
    \/ WCompare

SpecDenoise == InitDenoise /\ [][NextDenoise]_vars

\* The start of the worker for any valid band-plan arguments: the band plan
\* is built, once.
InitPlan ==
    \E a \in PlanArgs :
        InitState("start", a, InitCfg, <<>>, FALSE, 0, PeakInit, NoList)

NextPlan == WBuildBins

SpecPlan == InitPlan /\ [][NextPlan]_vars

\* ------------------------------------------------------------- properties

\* The worker has computed the level vector of its frame and has not yet
\* finished the iteration.
FrameComputed == pc \in {"force_check", "force_clear", "compare"}

\* C1: every level vector the worker computes has one entry per band, and
\* every entry, also of a vector still being built, is an integer in
\* [0, max_level].
C1_LevelsInRange ==
    /\ \A j \in 1..Len(levels) : levels[j] \in 0..max_level
    /\ FrameComputed => Len(levels) = n_bands

\* C1 witness: a complete level vector, computed after a calibration with the
\* denoiser applied to band 1, whose first band is at full scale.
C1_Witness ==
    /\ FrameComputed
    /\ Len(levels) = n_bands
    /\ noise_band_db # NoList
    /\ used[1].alpha # -1
    /\ levels[1] = max_level

\* C2: the configuration values a frame was computed with all come from one
\* configuration that existed during the iteration; in particular every band
\* saw the same denoise_enabled and the same denoise_alpha.
C2_OneConfigurationPerFrame ==
    FrameComputed =>
        \E c \in hist :
            /\ loc.db_range = c.db_range
            /\ loc.bg_mode = c.bg_mode
            /\ loc.stat_mode = c.band_stat
            /\ \A j \in 1..Len(used) :
                  /\ used[j].en = "on" => c.denoise_enabled
                  /\ used[j].en = "off" => ~c.denoise_enabled
                  /\ used[j].alpha # -1 => used[j].alpha = c.denoise_alpha

\* C3 as stated: once the force-redraw flag is set, the next frame the worker
\* finishes is delivered, that is, a frame that the worker finishes while
\* the flag is set is delivered.
C3_FrameFinishedWithFlagIsDelivered ==
    [][(pc = "compare" /\ force_redraw /\ pc' = "loop")
          => outcome' = "delivered"]_vars

\* C3 amended: a frame whose force-redraw check (is_set) finds the flag set
\* clears the flag and is delivered, whatever was delivered last; nothing
\* else clears the flag, and a frame is delivered at most once, by its change
\* detector.
C3_FrameCheckedWithFlagIsDelivered ==
    [][/\ (pc = "force_check" /\ force_redraw /\ pc' # pc)
             => pc' = "force_clear"
       /\ (pc = "force_clear" /\ pc' # pc)
             => (~force_redraw' /\ forced' /\ pc' = "compare")
       /\ (pc = "compare" /\ forced /\ pc' # pc)
             => (outcome' = "delivered" /\ delivered' = Current)
       /\ (force_redraw /\ ~force_redraw') => pc = "force_clear"
       /\ (outcome' = "delivered" /\ outcome # "delivered")
             => (pc = "compare" /\ pc' = "loop")]_vars

\* C3 witness: the flag was found set and cleared on a frame that equals the
\* frame delivered last; the change detector is about to run on it.
C3_Witness ==
    /\ pc = "compare"
    /\ forced
    /\ ~force_redraw
    /\ Current = delivered

\* C4: a frame whose force-redraw check found the flag clear is delivered if
\* and only if its level vector, db_range, bg_mode or stat_mode differs from
\* those of the frame delivered last.
C4_DeliveredIffDiffers ==
    [][(pc = "compare" /\ ~forced /\ pc' # pc)
          => /\ outcome' \in {"delivered", "suppressed"}
             /\ (outcome' = "delivered") <=> (Current # delivered)]_vars

\* C4 witness: an iteration that found the flag clear has suppressed a frame
\* equal to the one delivered before.
C4_Witness ==
    /\ pc = "loop"
    /\ outcome = "suppressed"
    /\ ~forced
    /\ delivered # NoLast

C6_StopEndsWorker ==
    /\ [](readsAfterStop <= 1)
    /\ stop ~> (pc = "done")

\* C6 witness: a calibration run was cut short by the stop signal after the
\* one read that was started with the signal set.
C6_Witness ==
    /\ pc \in {"publish", "get_db_range"}
    /\ consumed >= 1
    /\ stop
    /\ k < learn_frames
    /\ readsAfterStop = 1

\* C7: the noise profile changes only by a calibration run that captured at
\* least one frame, to the per-band median of the captured frames; a run
\* that captured none goes on to the frame's processing with the profile and
\* the force-redraw flag as they were; a run that captured some publishes
\* and then sets the flag.
C7_PublishIffCaptured ==
    [][/\ (noise_band_db' # noise_band_db)
             => /\ pc = "publish"
                /\ buf # <<>>
                /\ noise_band_db' = MedianProfile(buf)
       /\ (pc = "cal_loop" /\ pc' \notin {"cal_loop", "cal_read"})
             => IF buf = <<>>
                THEN /\ pc' = "get_db_range"
                     /\ noise_band_db' = noise_band_db
                     /\ force_redraw' = force_redraw
                ELSE pc' = "publish"
       /\ (pc = "publish" /\ pc' # pc) => pc' = "pub_flag"
       /\ (pc = "pub_flag" /\ pc' # pc) => force_redraw']_vars

\* C7 witness: a calibration run interrupted by the stop signal after one
\* capture has published the median of what it captured.
C7_Witness ==
    /\ pc = "pub_flag"
    /\ stop
    /\ k < learn_frames
    /\ Len(buf) >= 1
    /\ noise_band_db = MedianProfile(buf)

\* C8: a read that yields no full frame is skipped: the worker goes on to
\* the next read with the peaks, the last delivered values, the profile and
\* the calibration buffer as they were, and it leaves its loop only on the
\* stop signal.
C8_BadFrameSkipped ==
    [][/\ (pc = "read" /\ pc' \notin {"read", "learn_check"})
             => /\ pc' = "loop"
                /\ UNCHANGED <<band_peak_db, last, delivered, noise_band_db,
                               buf>>
       /\ (pc = "cal_read" /\ pc' # pc) => pc' = "cal_loop"
       /\ (pc' \notin {"loop", "read", "learn_check", "learn_clear",
                       "cal_loop", "cal_read", "publish", "pub_flag",
                       "get_db_range", "get_bg_mode", "get_max_level",
                       "get_band_stat", "band", "den_nb", "den_alpha",
                       "force_check", "force_clear", "compare"})
             => (stop /\ pc' = "done")]_vars

\* C9: the worker never raises on an unknown statistic mode while it
\* processes a frame.
C9_NoUnknownStatMidStream == pc # "raised_stat"

\* C10: the level of a band without bins is 0 in every level vector.
C10_EmptyBandSilent ==
    \A j \in 1..Len(levels) : IsEmptyBand(bins[j]) => levels[j] = 0

\* C11: the level vector the worker computes from an all-zero frame is all
\* zero, whatever frames came before, and the worker raises no error.
C11_SilentFrameAllZero ==
    /\ pc \notin {"raised_short", "raised_stat"}
    /\ (FrameComputed /\ data = FrameZero) => levels = [j \in Bands |-> 0]

\* C12: a band for which the worker read the denoise switch as off (or did
\* not read it: the band has no bins), or which it processed while no noise
\* profile existed, fed the peak tracker the band statistic itself.
C12_DenoiserIdentityWhenInactive ==
    \A j \in 1..Len(levels) :
        (used[j].en # "on" \/ noise_band_db = NoList)
            => used[j].fed = used[j].stat

\* C12 witness: a profile has been learned, and a band of a later frame was
\* processed with the denoise switch off.
C12_Witness ==
    /\ Len(levels) >= 1
    /\ noise_band_db # NoList
    /\ used[1].en = "off"
    /\ used[1].fed = used[1].stat

\* The worker has published a profile in this iteration and has computed the
\* level vector of the iteration's frame.
PublishedFrameComputed == FrameComputed /\ outcome = "published"

\* C13 as stated: a calibration run replaces the profile in one step and then
\* sets the force-redraw flag, and the level vector of that iteration is
\* denoised with the new profile in every band and delivered.
C13_PublishedFrameDenoisedAndDelivered ==
    /\ [](PublishedFrameComputed =>
             \A j \in Bands :
                 /\ used[j].en = "on"
                 /\ used[j].fed = Denoise(used[j].stat, noise_band_db[j],
                                           used[j].alpha))
    /\ [][/\ (pc = "publish" /\ pc' # pc)
                => (noise_band_db' = MedianProfile(buf) /\ pc' = "pub_flag")
          /\ (pc = "pub_flag" /\ pc' # pc) => force_redraw'
          /\ (pc = "compare" /\ outcome = "published" /\ pc' # pc)
                => (outcome' = "delivered" /\ delivered' = Current)]_vars

\* C13 amended: a calibration run replaces the profile in one step and then
\* sets the force-redraw flag; in the level vector of that iteration every
\* band for which the worker read the denoise switch as on is denoised with
\* the new profile, every other band is not denoised, and the vector is
\* delivered.
C13_PublishedFrameUsesNewProfileAndIsDelivered ==
    /\ [](PublishedFrameComputed =>
             \A j \in Bands :
                 IF used[j].en = "on"
                 THEN used[j].fed = Denoise(used[j].stat, noise_band_db[j],
                                            used[j].alpha)
                 ELSE used[j].fed = used[j].stat)
    /\ [][/\ (pc = "publish" /\ pc' # pc)
                => (noise_band_db' = MedianProfile(buf) /\ pc' = "pub_flag")
          /\ (pc = "pub_flag" /\ pc' # pc) => force_redraw'
          /\ (PublishedFrameComputed /\ pc' # pc)
                => (pc' = "loop" => outcome' = "delivered"
                                    /\ delivered' = Current)
          /\ (pc = "force_check" /\ outcome = "published" /\ pc' # pc)
                => pc' = "force_clear"]_vars

\* C13 witness: the frame of an iteration that published a profile was
\* denoised with it in band 1, to a value other than the band statistic,
\* and is about to be delivered.
C13_Witness ==
    /\ pc = "compare"
    /\ outcome = "published"
    /\ forced
    /\ used[1].en = "on"
    /\ used[1].fed = Denoise(used[1].stat, noise_band_db[1], used[1].alpha)
    /\ used[1].fed # used[1].stat

\* C14: a calibration run whose loop ran to the end of its range has
\* captured as many frames as the range is long, whatever reads came back
\* empty, and the range the program computes from its sample rate and
\* transform size is max(12, ceil(3 * sr / nfft)).
C14_CalibrationCapturesFullWindow ==
    (pc = "cal_loop" /\ k = learn_frames) =>
        /\ Len(buf) = learn_frames
        /\ LearnFrames(samplerate, nfft)
              = PyMax(12, -((-(3 * samplerate)) \div nfft))

\* C15 as stated: on a stream that feeds every band the same value on every
\* frame, a band's peak equals that value after each frame, the first one
\* included.
C15_PeakEqualsConstantInput ==
    \A j \in 1..Len(levels) : band_peak_db[j] = used[j].fed

\* C15 amended: on a stream that feeds a band the same value b on every
\* frame, the band's peak after the n-th frame is max(b, p0 - n * decay),
\* p0 being the peak before the first frame: the peak falls by the decay per
\* frame until it meets b, equals b from then on, and equals b from the
\* first frame on when b >= p0 - decay.
C15_PeakConvergesToConstantInput ==
    \A j \in 1..Len(levels) :
        band_peak_db[j] = PyMax(used[j].fed,
                                PeakInit - nReads * peak_decay_db)

\* C15 witness: band 1, fed a value above the initial peak, holds it; band 2,
\* fed a value below, has decayed to it and holds it.
C15_Witness ==
    /\ FrameComputed
    /\ nReads > 751
    /\ used[1].fed > PeakInit
    /\ band_peak_db[1] = used[1].fed
    /\ used[2].fed < PeakInit
    /\ band_peak_db[2] = used[2].fed

\* C16: with the peak taken after the tracker update, a band fed its peak
\* is at max_level, a band fed a value at or below peak - db_range is at 0,
\* and of two bands with the same peak the one fed the larger value has the
\* larger or equal level; with db_range 60, max_level 10 and peak -10 dB,
\* -10 dB gives 10, -70 dB gives 0 and -40 dB gives 5.
C16_NormalisationBoundaries ==
    \A j \in 1..Len(levels) :
        /\ used[j].fed = band_peak_db[j] => levels[j] = loc.max_level
        /\ used[j].fed <= band_peak_db[j] - loc.db_range => levels[j] = 0
        /\ \A l \in 1..Len(levels) :
              (band_peak_db[j] = band_peak_db[l] /\ used[j].fed <= used[l].fed)
                  => levels[j] <= levels[l]
        /\ (loc.db_range = 6000 /\ loc.max_level = 10
                /\ band_peak_db[j] = -1000)
              => /\ used[j].fed = -1000 => levels[j] = 10
                 /\ used[j].fed = -7000 => levels[j] = 0
                 /\ used[j].fed = -4000 => levels[j] = 5

\* C16 witness: two bands with the peak at -10 dB and db_range 60: the one
\* fed -40 dB is at level 5, the one fed -10 dB at level 10.
C16_Witness ==
    /\ FrameComputed
    /\ loc.db_range = 6000
    /\ band_peak_db[1] = -1000
    /\ band_peak_db[2] = -1000
    /\ used[1].fed = -4000
    /\ levels[1] = 5
    /\ used[2].fed = -1000
    /\ levels[2] = 10

\* C17 as stated: a band denoised with strength 0 feeds the peak tracker
\* the band statistic itself, whatever the statistic b and the noise
\* estimate n are.
C17_ZeroStrengthIsIdentity ==
    \A j \in 1..Len(levels) :
        (used[j].en = "on" /\ used[j].alpha = 0)
            => used[j].fed = used[j].stat

\* C17 amended: a band denoised with strength 0 feeds the peak tracker the
\* band statistic b itself when b is above the noise estimate n plus the
\* gate margin and not below -120 dB; it feeds -120 dB when b is below
\* n plus the margin, and when b is below -120 dB.
C17_ZeroStrengthIsIdentityAboveGate ==
    \A j \in 1..Len(levels) :
        (used[j].en = "on" /\ used[j].alpha = 0) =>
            LET b == used[j].stat
                n == noise_band_db[j] + denoise_gate_margin_db
            IN  /\ (b > n /\ b >= Silence) => used[j].fed = b
                /\ (b < n \/ b < Silence) => used[j].fed = Silence
                /\ used[j].fed \in {b, Silence}

\* C17 witness: with strength 0, band 1 lies above the noise estimate and is
\* passed through, band 2 lies below it and is gated.
C17_Witness ==
    /\ FrameComputed
    /\ used[1].alpha = 0
    /\ used[1].stat > noise_band_db[1]
    /\ used[1].fed = used[1].stat
    /\ used[2].alpha = 0
    /\ used[2].stat < noise_band_db[2]
    /\ used[2].stat > Silence
    /\ used[2].fed = Silence

\* C18: there is no noise profile at startup; the profile changes only in
\* the publishing step of a calibration run that consumed a learn request,
\* so no menu callback (setter, force-redraw, learn request, exit) and no
\* step of an ordinary frame changes it; and the peaks change only in the
\* worker's tracker update of the band it is processing.
C18_ProfileAndPeakWriters ==
    /\ noise_band_db = NoList
    /\ [][/\ (noise_band_db' # noise_band_db)
                => /\ pc = "publish"
                   /\ consumed >= 1
                   /\ UNCHANGED <<cfg, stop, mpc, nOps, learn_noise,
                                  band_peak_db>>
          /\ (band_peak_db' # band_peak_db)
                => /\ pc \in {"band", "den_nb", "den_alpha"}
                   /\ Len(levels') = Len(levels) + 1
                   /\ \A j \in Bands \ {i} :
                         band_peak_db'[j] = band_peak_db[j]
                   /\ band_peak_db'[i]
                         = PyMax(used'[i].fed,
                                 band_peak_db[i] - peak_decay_db)
                   /\ UNCHANGED <<cfg, stop, mpc, nOps, learn_noise>>
          /\ (cfg' # cfg \/ stop' # stop \/ mpc' # mpc \/ nOps' # nOps
                 \/ (learn_noise' /\ ~learn_noise))
                => UNCHANGED <<noise_band_db, band_peak_db>>]_vars

\* C18 witness: a profile was published, a setter and the exit action ran,
\* and an ordinary frame has been computed since, with the profile in place.
C18_Witness ==
    /\ noise_band_db # NoList
    /\ pc = "compare"
    /\ outcome = "none"
    /\ nOps = MaxOps
    /\ cfg # InitCfg
    /\ stop

\* C19: the band plan built from valid arguments has n_bands ranges, each
\* with binStart <= binEnd, and the ranges of successive bands are in
\* increasing order: binEnd of a band is at most binStart of the next one.
C19_BandRangesOrdered ==
    pc = "built" =>
        /\ Len(bins) = args.n_bands
        /\ \A j \in 1..Len(bins) : bins[j][1] <= bins[j][2]
        /\ \A j \in 1..(Len(bins) - 1) : bins[j][2] <= bins[j + 1][1]

\* C20: when the worker finishes an iteration that processed a frame, the
\* last_* values it has recorded, and the values last handed to the
\* renderer, are that frame's level vector, db_range, bg_mode and stat_mode,
\* whether the frame was delivered or suppressed.
C20_LastValuesAreLatestFrame ==
    [][(pc = "compare" /\ pc' # pc)
          => /\ pc' = "loop"
             /\ last' = Current
             /\ delivered' = Current]_vars

\* C20 witness: a frame computed under a sensitivity chosen from the menu was
\* suppressed, and the recorded values are those of the delivery before it.
C20_Witness ==
    /\ pc = "loop"
    /\ outcome = "suppressed"
    /\ last = delivered
    /\ last.levels # NoList
    /\ last.db_range # InitCfg.db_range

\* C21: the steps of a calibration run leave the peaks, the level vector,
\* the recorded and the delivered values and the frame read before the run
\* as they are, and deliver nothing; the level vector computed afterwards is
\* that of the frame read before the run; the peak of a band changes only
\* when the worker finishes that band, once per band and iteration; and a
\* delivery happens only at the end of an iteration, at most once.
C21_CalibrationFramesOnlyFeedProfile ==
    /\ [](FrameComputed =>
             /\ Len(levels) = n_bands
             /\ \A j \in Bands :
                   used[j].stat = SegStat(data[j], loc.stat_mode))
    /\ [][/\ (pc \in {"learn_clear", "cal_loop", "cal_read", "publish",
                       "pub_flag"} /\ pc' # pc)
                => /\ UNCHANGED <<band_peak_db, levels, last, delivered,
                                  data, nReads>>
                   /\ outcome' # "delivered"
          /\ (data' # data) => (pc = "read" \/ pc = "compare")
          /\ (band_peak_db' # band_peak_db \/ levels' # levels)
                => \/ /\ pc \in {"band", "den_nb", "den_alpha"}
                      /\ i = Len(levels) + 1
                      /\ Len(levels') = i
                      /\ \A j \in Bands \ {i} :
                            band_peak_db'[j] = band_peak_db[j]
                   \/ /\ pc \in {"get_band_stat", "compare"}
                      /\ levels' = <<>>
                      /\ band_peak_db' = band_peak_db
          /\ (delivered' # delivered
                 \/ (outcome' = "delivered" /\ outcome # "delivered"))
                => (pc = "compare" /\ pc' = "loop")
          /\ (pc = "compare" /\ pc' # pc) => outcome # "delivered"]_vars

\* C21 witness: a calibration run on background frames has published their
\* profile, and the worker has gone on to compute the level vector of the
\* tone frame it read before the run.
C21_Witness ==
    /\ pc = "compare"
    /\ outcome = "published"
    /\ data = FrameTone
    /\ noise_band_db = BandDbList(FrameHiss, bins)
    /\ used[1].stat = SegStat(Loud, loc.stat_mode)
    /\ Len(levels) = n_bands

\* ------------------------------------------------- the configuration lock

\* A worker that also calls rec.record inside a `with self._lock:` block.
HoldsLockAtOrRead(p) ==
    p \in {"publish", "get_db_range", "get_bg_mode", "get_max_level",
           "get_band_stat", "band", "den_nb", "den_alpha", "read"}

\* The worker's statements that enter a `with self._lock:` block: the
\* publication of the profile, the four getters at the head of a frame, and
\* in the band loop get_denoise_enabled(), the read of self._noise_band_db
\* and get_denoise_alpha().  rec.record is called outside every block.
HoldsLockAt(p) ==
    p \in {"publish", "get_db_range", "get_bg_mode", "get_max_level",
           "get_band_stat", "band", "den_nb", "den_alpha"}

\* The worker stands before a block: an empty band, and a statistic that
\* raises, never reach get_denoise_enabled().
WorkerNeedsLock ==
    /\ HoldsLockAt(pc)
    /\ pc = "band" => ~IsEmptyBand(bins[i]) /\ StatKnown(loc.stat_mode)

\* The thread inside a block: the one that acquired the lock and has not
\* yet run the block's body.  The body's step leaves the block, which
\* releases the lock.
LockHolder ==
    IF lock[1] = "worker" /\ lock[2] = pc /\ lock[3] = i THEN "worker"
    ELSE IF lock[1] = "menu" /\ lock[2] = mpc /\ lock[3] = nOps THEN "menu"
    ELSE "free"

\* The worker enters a `with self._lock:` block: Lock.acquire() returns
\* only when no thread holds the lock.
LWAcquire ==

    /\ WorkerNeedsLock
    /\ LockHolder = "free"
    /\ lock' = <<"worker", pc, i>>
    /\ UNCHANGED <<cfg, stop, force_redraw, learn_noise, noise_band_db, pc,
                   bins, args, band_peak_db, data, buf, k, loc, i, band_db,
                   levels, last, mpc, nOps, nReads, readsAfterStop, outcome,
                   forced, delivered, used, hist, learnSets, consumed>>

\* A stream of tones and empty reads.
WReadLock ==
    /\ ReadFrom({FrameTone, Empty}, LockReads)
    /\ UNCHANGED <<cfg, stop, force_redraw, learn_noise, lock, noise_band_db,
                   bins, args, band_peak_db, buf, k, loc, i, band_db, levels,
                   last, mpc, nOps, outcome, forced, delivered, used, hist,
                   learnSets, consumed>>

\* The worker's next statement: the body of the block it entered, or a
\* statement outside every block.
LWorker ==

    /\ WorkerNeedsLock => LockHolder = "worker"
    /\ \/ WLoop \/ WReadLock \/ WLearnCheck \/ WLearnClear \/ WCalLoop
       \/ WCalRead \/ WPublish \/ WPubFlag
       \/ WGetDbRange \/ WGetBgMode \/ WGetMaxLevel \/ WGetBandStat
       \/ WBand \/ WDenNb \/ WDenAlpha
       \/ WForceCheck \/ WForceClear \/ WCompare

\* A setter of the menu thread enters its `with self._lock:` block.
LMAcquire ==

    /\ mpc = "idle"
    /\ nOps < MaxOps
    /\ LockHolder = "free"
    /\ lock' = <<"menu", mpc, nOps>>
    /\ UNCHANGED <<cfg, stop, force_redraw, learn_noise, noise_band_db, pc,
                   bins, args, band_peak_db, data, buf, k, loc, i, band_db,
                   levels, last, mpc, nOps, nReads, readsAfterStop, outcome,
                   forced, delivered, used, hist, learnSets, consumed>>

\* The body of the setter's block: the assignment of the field.
LMSetter ==

    /\ LockHolder = "menu"
    /\ \/ MSetDbRange \/ MSetBgMode \/ MSetBandStat \/ MToggleDenoise
       \/ MSetDenoiseAlpha

\* A getter called on the menu thread (the checked_* callbacks, and the
\* get_denoise_enabled() of action_toggle_denoise, which returns before
\* _set_denoise_enabled is called) enters its block.
LMGetAcquire ==

    /\ mpc = "idle"
    /\ nOps < MaxOps
    /\ LockHolder = "free"
    /\ mpc' = "get"
    /\ lock' = <<"menu", "get", nOps>>
    /\ UNCHANGED <<cfg, stop, force_redraw, learn_noise, noise_band_db, pc,
                   bins, args, band_peak_db, data, buf, k, loc, i, band_db,
                   levels, last, nOps, nReads, readsAfterStop, outcome,
                   forced, delivered, used, hist, learnSets, consumed>>

\* The body of the getter's block: return the field.
LMGetReturn ==

    /\ mpc = "get"
    /\ mpc' = "idle"
    /\ nOps' = nOps + 1
    /\ UNCHANGED <<cfg, stop, force_redraw, learn_noise, lock, noise_band_db,
                   pc, bins, args, band_peak_db, data, buf, k, loc, i,
                   band_db, levels, last, nReads, readsAfterStop, outcome,
                   forced, delivered, used, hist, learnSets, consumed>>

\* The menu thread's statements outside every block: the Event operations.
LMenuFree ==

    /\ LockHolder # "menu"
    /\ MForceRedraw \/ MLearnNoise \/ MExit

NextLock ==
    \/ LWAcquire \/ LWorker
    \/ LMAcquire \/ LMSetter \/ LMGetAcquire \/ LMGetReturn \/ LMenuFree

\* Both threads are always scheduled again; a thread waiting for the lock
\* runs once the lock stays free.
SpecLock ==
    /\ Init
    /\ [][NextLock]_vars
    /\ WF_vars(LWAcquire \/ LWorker)
    /\ WF_vars(LMSetter \/ LMGetReturn)

\* C22: the worker never holds the configuration lock while it waits for a
\* frame (in the loop or in a calibration run); a thread enters a locked
\* block only from the free lock, by a step that leaves its own position
\* unchanged, never while it or the other thread is inside a block; every
\* block that was entered is left again, so every getter and setter call
\* returns; and from every position the worker reaches its next frame read
\* or ends.
C22_LockNeverStopsProgress ==
    /\ [](pc \in {"read", "cal_read"} => LockHolder # "worker")
    /\ [][/\ (LockHolder' = "worker" /\ LockHolder # "worker")
                => (LockHolder = "free" /\ pc' = pc /\ i' = i)
          /\ (LockHolder' = "menu" /\ LockHolder # "menu")
                => (LockHolder = "free" /\ nOps' = nOps /\ cfg' = cfg)]_vars
    /\ (LockHolder = "menu") ~> (LockHolder # "menu")
    /\ (LockHolder = "worker") ~> (LockHolder # "worker")
    /\ (mpc = "get") ~> (mpc = "idle")
    /\ (pc \notin {"read", "cal_read", "done"})
          ~> (pc \in {"read", "cal_read", "done"})

\* The denoiser was switched on, and the worker waits before its read of
\* self._noise_band_db while a getter of the menu thread is inside its block.
C22_Witness ==
    /\ pc = "den_nb"
    /\ cfg.denoise_enabled
    /\ WorkerNeedsLock
    /\ LockHolder = "menu"
    /\ mpc = "get"
    /\ nReads >= 1

====
